---- MODULE Spec2Model ----
(***************************************************************************)
(* A model of the ipc crate: Unix-domain-socket listeners (Server,         *)
(* RawListener, AsyncServer, AsyncListener), connections (Client,          *)
(* AsyncConnection, server Connection, StreamData) and the one-shot client *)
(* (Client::send_one_shot), over a small model of the kernel's socket      *)
(* queues and of the socket-path namespace of the file system.             *)
(*                                                                         *)
(* Strings are sequences of tokens: "/" is the path separator, every other *)
(* token is a separator-free, non-empty piece of text. Bytes are numbers.  *)
(***************************************************************************)
EXTENDS Integers, Sequences, FiniteSets, TLC

\* ------------------------------------------------------------- bounds ----
\* Connections dialed in one behaviour (connection ids are never reused).
MaxConns == 2
\* Listeners bound in one behaviour (listener ids are never reused).
MaxListeners == 2
\* Bytes one direction of a socket holds before a writer has to wait.
SockCap == 2
\* Sends one end of a connection starts in one behaviour (a send that timed out
\* after a partial write may be followed by one more).
MaxSends == 1

\* -------------------------------------------------- program constants ----
\* (TypedBufLenDoubled: a typed read with a buffer twice the size.)
TypedBufLenDoubled == 2 * 1024

\* let mut buf = [0u8; 1024] of the typed reads.
TypedBufLen == 1024

SOCKET_PATH == <<"/", "var", "/", "lib", "/", "tag_connectivity", "/", "sockets">>

\* ------------------------------------------------------- input spaces ----
RelName == <<"a.sock">>
AbsName == <<"/", "tmp", "/", "a.sock">>
AbsDefaultName == SOCKET_PATH \o <<"/", "a.sock">>
EmptyName == << >>

Names == {RelName, AbsName, AbsDefaultName, EmptyName}

\* Directories that exist; a socket file can be created only inside one.
ExistingDirs == {SOCKET_PATH, <<"/", "tmp">>}

\* 65 is "A"; 255 is a byte no UTF-8 text contains.
Bytes == {65, 255}
Payloads == {<< >>, <<65>>, <<255, 65>>, <<65, 255, 65>>}
\* Texts (sequences of code points) a caller passes where the API takes a String.
Texts == {<< >>, <<65>>, <<65, 65, 65>>}
BufLens == {1, 3}
\* A text one byte longer than the buffer of the typed reads, its last
\* character unlike the others.
LargeText == [i \in 1..(TypedBufLen + 1) |-> IF i <= TypedBufLen THEN 65 ELSE 66]

\* Option<Duration> arguments: None, Some(Duration::ZERO), Some of a positive
\* duration.
Timeouts == {"None", "Zero", "Some"}

ListenerKinds == {"Server", "RawListener", "AsyncServer", "AsyncListener"}
ClientKinds == {"Client", "AsyncConnection"}

\* ------------------------------------------------------------ helpers ----
Min(a, b) == IF a < b THEN a ELSE b

Take(s, n) == SubSeq(s, 1, Min(n, Len(s)))

Drop(s, n) == SubSeq(s, Min(n, Len(s)) + 1, Len(s))

Peer(side) == IF side = "c" THEN "s" ELSE "c"

\* String::from_utf8_lossy, on the byte alphabet of the model: an ASCII byte is
\* its own code point, a byte that is not valid UTF-8 becomes U+FFFD.
from_utf8_lossy(bytes) ==
    [i \in 1..Len(bytes) |-> IF bytes[i] < 128 THEN bytes[i] ELSE 65533]

\* Vec::from(String): the UTF-8 encoding of a text, character by character
\* (computed by halves, so that a long text needs no deep recursion).
RECURSIVE VecFromString(_)
VecFromString(text) ==
    IF text = << >> THEN << >>
    ELSE IF Len(text) = 1
    THEN (IF text[1] < 128 THEN <<text[1]>> ELSE <<239, 191, 189>>)
    ELSE LET h == Len(text) \div 2
         IN  VecFromString(SubSeq(text, 1, h))
                 \o VecFromString(SubSeq(text, h + 1, Len(text)))

\* ---------------------------------------------------- path resolution ----
\* Server::new and Client::new index byte 0 of the name: an empty name panics.
IndexZeroPanics(name) == Len(name) = 0

\* Server::new: the name itself when its first byte is '/', else under SOCKET_PATH.
ServerNewPath(name) ==
    IF name[1] = "/" THEN name ELSE SOCKET_PATH \o <<"/">> \o name

\* RawListener::new: the same, tested with starts_with (no index, no panic).
RawListenerNewPath(name) ==
    IF Len(name) > 0 /\ name[1] = "/" THEN name ELSE SOCKET_PATH \o <<"/">> \o name

\* Client::new.
ClientNewPath(name) ==
    IF name[1] # "/" THEN SOCKET_PATH \o <<"/">> \o name ELSE name

\* Client::send_one_shot: always under SOCKET_PATH.
SendOneShotPath(name) == SOCKET_PATH \o <<"/">> \o name

\* get_full_path (crate root; its body is not among the source files): the
\* Path Resolver of the specification.
get_full_path(name) ==
    IF Len(name) > 0 /\ name[1] = "/" THEN name ELSE SOCKET_PATH \o <<"/">> \o name

Panics(kind, name) ==
    kind \in {"Server", "Client"} /\ IndexZeroPanics(name)

PathOf(kind, name) ==
    CASE kind = "Server" -> ServerNewPath(name)
      [] kind \in {"RawListener", "AsyncListener"} -> RawListenerNewPath(name)
      [] kind = "Client" -> ClientNewPath(name)
      [] kind = "OneShot" -> SendOneShotPath(name)
      [] OTHER -> get_full_path(name)

\* A socket file can live at dir/file for an existing dir.
CanHoldSocket(path) ==
    /\ Len(path) >= 3
    /\ path[Len(path)] # "/"
    /\ path[Len(path) - 1] = "/"
    /\ SubSeq(path, 1, Len(path) - 2) \in ExistingDirs

SocketPaths ==
    {p \in {RawListenerNewPath(n) : n \in Names} \cup {SendOneShotPath(n) : n \in Names} :
        CanHoldSocket(p)}

\* -------------------------------------------------------------- state ----
VARIABLES
    files,       \* path -> id of the listener whose socket file is there, 0: no file
    listeners,   \* listener id -> the listener (UnixListener and its owner)
    conns,       \* connection id -> the socket pair and its two ends
    os,          \* the call of Client::send_one_shot in progress
    oslog,       \* the one-shot calls that dialed and returned, in order: [con, tag]
    acclog,      \* per listener: the connections listen accepted, in order
    hlog,        \* per listener: the connections the callback was invoked with
    ret          \* what the last API call returned

vars == <<files, listeners, conns, os, oslog, acclog, hlog, ret>>

LIds == 1..MaxListeners
CIds == 1..MaxConns
Sides == {"c", "s"}

NoListener ==
    [st |-> "none", kind |-> "-", name |-> << >>, path |-> << >>,
     backlog |-> << >>, lpc |-> "off", cur |-> 0, running |-> {}, fails |-> FALSE,
     removed |-> FALSE, pend |-> FALSE]

\* A listener whose owner dropped it (its id is not used again).
DroppedListener == [NoListener EXCEPT !.st = "dropped"]

Both(x) == [c |-> x, s |-> x]

NoConn ==
    [st |-> "unused", lid |-> 0, acc |-> FALSE, q |-> Both(<< >>),
     open |-> Both(FALSE), kind |-> Both("-"), wr |-> Both(<< >>),
     busy |-> Both(FALSE), rst |-> Both(FALSE),
     lastSent |-> Both(<< >>), intact |-> Both(FALSE), nsent |-> Both(0),
     late |-> FALSE, wrote |-> Both(0),
     tmo |-> [r |-> FALSE, w |-> FALSE], rdcap |-> 0,
     ahead |-> Both(<< >>), misorder |-> Both(FALSE), torn |-> Both(FALSE),
     room |-> SockCap]

\* A connection both ends of which are closed: the kernel has freed it (its id
\* is not used again).
DeadConn == [NoConn EXCEPT !.st = "dead"]

Retire(cn) == IF ~cn.open["c"] /\ ~cn.open["s"] THEN DeadConn ELSE cn

NoRet ==
    [api |-> "-", op |-> "-", c |-> 0, side |-> "-", tag |-> "-", err |-> "-",
     n |-> 0, data |-> << >>, cap |-> 0, eof |-> FALSE,
     whole |-> FALSE, sent |-> << >>, name |-> << >>, path |-> << >>,
     policy |-> "-", reads |-> 0, unread |-> << >>, nresp |-> 0, served |-> FALSE,
     stale |-> FALSE]

Ret(api, op, tag) == [NoRet EXCEPT !.api = api, !.op = op, !.tag = tag]

RetErr(api, op, err) == [Ret(api, op, "Err") EXCEPT !.err = err]

IdleOs ==
    [pc |-> "idle", name |-> << >>, path |-> << >>, policy |-> "-", cap |-> 0,
     con |-> 0, data |-> << >>, reads |-> 0]

Init ==
    /\ files = [p \in SocketPaths |-> 0]
    /\ listeners = [l \in LIds |-> NoListener]
    /\ conns = [c \in CIds |-> NoConn]
    /\ os = IdleOs
    /\ oslog = << >>
    /\ acclog = [l \in LIds |-> << >>]
    /\ hlog = [l \in LIds |-> << >>]
    /\ ret = NoRet

FreshL == CHOOSE l \in LIds : listeners[l].st = "none" /\ \A k \in 1..(l - 1) : listeners[k].st # "none"

FreshC == CHOOSE c \in CIds : conns[c].st = "unused" /\ \A k \in 1..(c - 1) : conns[k].st # "unused"

\* -------------------------------------------------------- file system ----
\* (remove_file_skipped: a constructor that binds without removing first.)
\* std::fs::remove_file: the files after the call (a missing file, or a path
\* that holds no file, is an error the callers ignore).
remove_file_skipped(fs, path) == fs

remove_file(fs, path) ==
    IF path \in DOMAIN fs THEN [fs EXCEPT ![path] = 0] ELSE fs

\* A stale socket file: the file at `path` is the one a listener left behind
\* when it was dropped.
StaleSocket(path) ==
    path \in DOMAIN files /\ files[path] # 0 /\ listeners[files[path]].st = "dropped"

\* UnixListener::bind succeeds when the directory exists and no file is there.
BindSucceeds(fs, path) == CanHoldSocket(path) /\ path \in DOMAIN fs /\ fs[path] = 0

\* ----------------------------------------------------------- Listener ----
\* Server::new, RawListener::new, AsyncServer::new, AsyncListener::new:
\* resolve the path, remove the file there (errors ignored), bind.
ListenerNew(kind, name) ==
    /\ \E l \in LIds : listeners[l].st = "none"
    /\ IF Panics(kind, name)
       THEN /\ ret' = [Ret(kind, "new", "Panic") EXCEPT !.name = name]
            /\ UNCHANGED <<files, listeners>>
       ELSE LET path == PathOf(kind, name)
                removed == remove_file(files, path)
            IN  IF BindSucceeds(removed, path)
                THEN /\ files' = [removed EXCEPT ![path] = FreshL]
                     /\ listeners' = [listeners EXCEPT ![FreshL] =
                            [NoListener EXCEPT !.st = "alive", !.kind = kind,
                                               !.name = name, !.path = path]]
                     /\ ret' = [Ret(kind, "new", "Ok") EXCEPT
                                  !.n = FreshL, !.name = name, !.path = path,
                                  !.stale = StaleSocket(path)]
                ELSE /\ files' = removed
                     /\ UNCHANGED listeners
                     /\ ret' = [RetErr(kind, "new", "BindError") EXCEPT
                                  !.name = name, !.path = path,
                                  !.stale = StaleSocket(path)]
    /\ UNCHANGED <<conns, os, oslog, acclog, hlog>>

\* Dropping a UnixListener closes the descriptor and leaves the socket file on
\* disk; connections still in its backlog are reset.
ResetEmbryo(cn) ==
    Retire([cn EXCEPT !.open["s"] = FALSE, !.q["s"] = << >>, !.rst["c"] = TRUE])

DropListener(l) ==
    /\ listeners[l].st = "alive"
    /\ listeners[l].lpc = "off"
    /\ listeners' = [listeners EXCEPT ![l] = DroppedListener]
    /\ conns' = [c \in CIds |->
                    IF conns[c].st = "live" /\ conns[c].lid = l /\ ~conns[c].acc
                    THEN ResetEmbryo(conns[c]) ELSE conns[c]]
    /\ ret' = Ret(listeners[l].kind, "drop", "Ok")
    /\ UNCHANGED <<files, os, oslog, acclog, hlog>>

\* The caller removes the socket file of a listener (the specification's
\* "socket file removed by the caller").
CallerRemovesFile(path) ==
    /\ files[path] # 0
    /\ files' = remove_file(files, path)
    /\ listeners' = [listeners EXCEPT ![files[path]] =
                        IF @.st = "alive" THEN [@ EXCEPT !.removed = TRUE] ELSE @]
    /\ ret' = Ret("caller", "remove_file", "Ok")
    /\ UNCHANGED <<conns, os, oslog, acclog, hlog>>

\* ------------------------------------------------- the kernel's sockets ----
\* connect(2): the listener a dial of `path` reaches, 0 when it is refused (no
\* file, or a file whose listener is gone).
ConnectTarget(path) ==
    IF path \in DOMAIN files /\ files[path] # 0 /\ listeners[files[path]].st = "alive"
    THEN files[path] ELSE 0

NewConn(l, ckind) ==
    [NoConn EXCEPT !.st = "live", !.lid = l, !.open = Both(TRUE),
                   !.kind = [c |-> ckind, s |-> "backlog"],
                   !.late = listeners[l].fails]

\* The room left in the receive queue of the peer of `side`; a queue holds
\* cn.room bytes (SockCap unless the system gives the socket large buffers).
Free(cn, side) == cn.room - Len(cn.q[Peer(side)])

\* Whether a write(2) of a non-empty buffer returns now (it waits while the
\* peer's queue is full and the peer is open).
WriteReturns(cn, side) == ~cn.open[Peer(side)] \/ Free(cn, side) > 0

\* A send made of a single write(2): it returns Ok after the first write,
\* whatever that write left unwritten.
write_once(cn, side, rem) ==
    IF rem = << >>
    THEN [cn |-> [cn EXCEPT !.wr[side] = << >>, !.busy[side] = FALSE],
          done |-> TRUE, ok |-> TRUE]
    ELSE IF ~cn.open[Peer(side)]
    THEN [cn |-> [cn EXCEPT !.wr[side] = << >>, !.busy[side] = FALSE,
                            !.intact[side] = FALSE],
          done |-> TRUE, ok |-> FALSE]
    ELSE LET n == Min(Len(rem), Free(cn, side))
         IN  [cn |-> [cn EXCEPT !.q[Peer(side)] = @ \o Take(rem, n),
                                !.wr[side] = << >>,
                                !.busy[side] = FALSE,
                                !.wrote[side] = @ + n],
              done |-> TRUE, ok |-> TRUE]

\* Write::write_all(rem) up to the point where it returns or has to wait:
\* [cn: the connection after, done: whether write_all returned, ok: with Ok].
\* An empty buffer returns Ok at once; a closed peer is EPIPE; otherwise one
\* write(2) moves as many bytes as the peer's queue has room for.
write_all(cn, side, rem) ==
    IF rem = << >>
    THEN [cn |-> [cn EXCEPT !.wr[side] = << >>, !.busy[side] = FALSE],
          done |-> TRUE, ok |-> TRUE]
    ELSE IF ~cn.open[Peer(side)]
    THEN [cn |-> [cn EXCEPT !.wr[side] = << >>, !.busy[side] = FALSE,
                            !.intact[side] = FALSE],
          done |-> TRUE, ok |-> FALSE]
    ELSE LET n == Min(Len(rem), Free(cn, side))
             left == Drop(rem, n)
         IN  [cn |-> [cn EXCEPT !.q[Peer(side)] = @ \o Take(rem, n),
                                !.wr[side] = left,
                                !.busy[side] = (left # << >>),
                                !.wrote[side] = @ + n],
              done |-> left = << >>, ok |-> TRUE]

\* The ghost record of a send that starts: its payload, whether the peer's
\* queue was empty then (so that the payload is all the peer can read), the
\* count of its bytes written so far, and (ahead) the payloads sent to the peer,
\* in send order, less what the peer has read of them.
StartSend(cn, side, bytes) ==
    [cn EXCEPT !.lastSent[side] = bytes,
               !.intact[side] = (cn.q[Peer(side)] = << >>),
               !.nsent[side] = @ + 1,
               !.wrote[side] = 0,
               !.ahead[Peer(side)] = @ \o bytes]

\* A read(2) that never waits (a non-blocking or timed-out descriptor).
ReadReturnsAlways(cn, side) == TRUE

\* Whether a read(2) into a non-empty buffer returns now.
ReadReturns(cn, side) ==
    cn.q[side] # << >> \/ cn.rst[side] \/ ~cn.open[Peer(side)]

\* A read that hands back everything queued, whatever the buffer's length.
read_all(cn, side, cap) ==
    IF cn.q[side] # << >>
    THEN [cn |-> [cn EXCEPT !.q[side] = << >>, !.intact[Peer(side)] = FALSE],
          ok |-> TRUE, n |-> Len(cn.q[side]), data |-> cn.q[side]]
    ELSE IF cn.rst[side]
    THEN [cn |-> [cn EXCEPT !.rst[side] = FALSE, !.intact[Peer(side)] = FALSE],
          ok |-> FALSE, n |-> 0, data |-> << >>]
    ELSE [cn |-> [cn EXCEPT !.intact[Peer(side)] = FALSE],
          ok |-> TRUE, n |-> 0, data |-> << >>]

\* read(2) into a buffer of `cap` bytes: queued bytes first, then a pending
\* ECONNRESET, then end of file (0 bytes).
\* [cn: the connection after, ok, n: bytes read, data: the bytes]. The ghost
\* record: the bytes read are taken off `ahead` when they are its start, and
\* `misorder` is set when they are not.
read(cn, side, cap) ==
    IF cn.q[side] # << >>
    THEN LET n == Min(cap, Len(cn.q[side]))
             d == Take(cn.q[side], n)
             inorder == Len(d) <= Len(cn.ahead[side])
                            /\ SubSeq(cn.ahead[side], 1, Len(d)) = d
         IN  [cn |-> [cn EXCEPT !.q[side] = Drop(@, n), !.intact[Peer(side)] = FALSE,
                                !.ahead[side] = IF inorder THEN Drop(@, n) ELSE @,
                                !.misorder[side] = @ \/ ~inorder],
              ok |-> TRUE, n |-> n, data |-> Take(cn.q[side], n)]
    ELSE IF cn.rst[side]
    THEN [cn |-> [cn EXCEPT !.rst[side] = FALSE, !.intact[Peer(side)] = FALSE],
          ok |-> FALSE, n |-> 0, data |-> << >>]
    ELSE [cn |-> [cn EXCEPT !.intact[Peer(side)] = FALSE],
          ok |-> TRUE, n |-> 0, data |-> << >>]

\* close(2) of one end: bytes it had not read are discarded, and discarding any
\* resets the peer.
close(cn, side) ==
    Retire([cn EXCEPT !.open[side] = FALSE, !.wr[side] = << >>, !.busy[side] = FALSE,
                      !.q[side] = << >>,
                      !.rst[Peer(side)] = @ \/ cn.q[side] # << >>])

\* What a read returns, with the facts about the state it read in that the
\* properties speak of: eof (the peer had closed cleanly and nothing was left),
\* whole/sent (the peer's last send had returned Ok, had started on an empty
\* queue and nothing of it had been read), unread (the queued bytes that did not
\* fit the buffer).
ReadContext(r, cn, side, cap) ==
    [r EXCEPT !.side = side, !.cap = cap,
              !.eof = (cn.q[side] = << >> /\ ~cn.rst[side] /\ ~cn.open[Peer(side)]),
              !.whole = (cn.intact[Peer(side)] /\ ~cn.busy[Peer(side)]
                         /\ cn.nsent[Peer(side)] > 0),
              !.sent = cn.lastSent[Peer(side)],
              !.unread = Drop(cn.q[side], r.n)]

\* -------------------------------------------------------- connections ----
\* An end of kind `kind` that its owner holds and is not inside a call on.
Held(c, side, kind) ==
    /\ conns[c].st = "live"
    /\ conns[c].open[side]
    /\ conns[c].kind[side] = kind
    /\ ~conns[c].busy[side]

\* UnixStream::connect(path) for a persistent client of kind `kind`.
Connect(kind, op, name, path) ==
    LET l == ConnectTarget(path)
    IN  IF l = 0
        THEN /\ ret' = [RetErr(kind, op, "ConnectError") EXCEPT
                          !.name = name, !.path = path]
             /\ UNCHANGED <<conns, listeners>>
        ELSE /\ conns' = [conns EXCEPT ![FreshC] = NewConn(l, kind)]
             /\ listeners' = [listeners EXCEPT ![l].backlog = Append(@, FreshC)]
             /\ ret' = [Ret(kind, op, "Ok") EXCEPT
                          !.c = FreshC, !.n = l, !.name = name, !.path = path]

\* Client::new (the timeouts are None).
ClientNew(name) ==
    /\ \E c \in CIds : conns[c].st = "unused"
    /\ IF IndexZeroPanics(name)
       THEN /\ ret' = [Ret("Client", "new", "Panic") EXCEPT !.name = name]
            /\ UNCHANGED <<conns, listeners>>
       ELSE Connect("Client", "new", name, ClientNewPath(name))
    /\ UNCHANGED <<files, os, oslog, acclog, hlog>>

\* async_wrapper::new_client_async.
new_client_async(name) ==
    /\ \E c \in CIds : conns[c].st = "unused"
    /\ Connect("AsyncConnection", "new_client_async", name, get_full_path(name))
    /\ UNCHANGED <<files, os, oslog, acclog, hlog>>

\* The system gives the sockets of a connection buffers large enough for more
\* than a typed read takes (a socket's default buffer is some hundred KiB).
LargeSocketBuffers(c) ==
    /\ conns[c].st = "live"
    /\ conns[c].room = SockCap
    /\ conns[c].nsent = Both(0)
    /\ conns' = [conns EXCEPT ![c].room = TypedBufLen + SockCap]
    /\ ret' = Ret("system", "large_buffers", "Ok")
    /\ UNCHANGED <<files, listeners, os, oslog, acclog, hlog>>

\* A read that reports 0 bytes as an EndOfStream error, as read_raw does.
StdReadResultChecked(api, op, r) ==
    IF r.ok
    THEN IF r.n = 0
         THEN RetErr(api, op, "EndOfStream")
         ELSE [Ret(api, op, "Ok") EXCEPT !.n = r.n, !.data = r.data]
    ELSE RetErr(api, op, "ReadError")

\* What a raw std read hands back: Ok(n), 0 at end of file included.
StdReadResult(api, op, r) ==
    IF r.ok
    THEN [Ret(api, op, "Ok") EXCEPT !.n = r.n, !.data = r.data]
    ELSE RetErr(api, op, "ReadError")

\* read_raw with its end-of-stream test off by one (bytes_read <= 1).
ReadRawResultOffByOne(r) ==
    IF r.ok
    THEN IF r.n <= 1
         THEN RetErr("AsyncConnection", "read_raw", "EndOfStream")
         ELSE [Ret("AsyncConnection", "read_raw", "Ok") EXCEPT !.n = r.n, !.data = r.data]
    ELSE RetErr("AsyncConnection", "read_raw", "ReadError")

\* AsyncConnection::read_raw: 0 bytes is Err(UnexpectedEof).
ReadRawResult(r) ==
    IF r.ok
    THEN IF r.n = 0
         THEN RetErr("AsyncConnection", "read_raw", "EndOfStream")
         ELSE [Ret("AsyncConnection", "read_raw", "Ok") EXCEPT !.n = r.n, !.data = r.data]
    ELSE RetErr("AsyncConnection", "read_raw", "ReadError")

\* AsyncConnection::read: 0 bytes is Err(UnexpectedEof); else the lossy text.
AsyncReadResult(r) ==
    IF r.ok
    THEN IF r.n = 0
         THEN RetErr("AsyncConnection", "read", "EndOfStream")
         ELSE [Ret("AsyncConnection", "read", "Ok") EXCEPT
                  !.n = r.n, !.data = from_utf8_lossy(r.data)]
    ELSE RetErr("AsyncConnection", "read", "ReadError")

\* server::async_wrapper::Connection::read: the lossy text of whatever was read.
ConnectionReadResult(r) ==
    IF r.ok
    THEN [Ret("Connection", "read", "Ok") EXCEPT
             !.n = r.n, !.data = from_utf8_lossy(r.data)]
    ELSE RetErr("Connection", "read", "ReadError")

\* One read call on the end (c, side): the connection after it and what the
\* call returns, `result` being the variant's own treatment of the read.
DoRead(c, side, cap, r, result) ==
    /\ conns' = [conns EXCEPT ![c] = r.cn]
    /\ ret' = ReadContext([result EXCEPT !.c = c], conns[c], side, cap)
    /\ UNCHANGED <<files, listeners, os, oslog, acclog, hlog>>

\* Client::read.
ClientRead(c, cap) ==
    /\ Held(c, "c", "Client")
    /\ ReadReturns(conns[c], "c")
    /\ LET r == read(conns[c], "c", cap)
       IN  DoRead(c, "c", cap, r, StdReadResult("Client", "read", r))

\* stream_data.stream.read(buf) on an accepted StreamData.
StreamRead(c, cap) ==
    /\ Held(c, "s", "StreamData")
    /\ ReadReturns(conns[c], "s")
    /\ LET r == read(conns[c], "s", cap)
       IN  DoRead(c, "s", cap, r, StdReadResult("StreamData", "read", r))

\* AsyncConnection::read_raw.
AsyncConnectionReadRaw(c, side, cap) ==
    /\ Held(c, side, "AsyncConnection")
    /\ ReadReturns(conns[c], side)
    /\ LET r == read(conns[c], side, cap)
       IN  DoRead(c, side, cap, r, ReadRawResult(r))

\* AsyncConnection::read.
AsyncConnectionRead(c, side) ==
    /\ Held(c, side, "AsyncConnection")
    /\ ReadReturns(conns[c], side)
    /\ LET r == read(conns[c], side, TypedBufLen)
       IN  DoRead(c, side, TypedBufLen, r, AsyncReadResult(r))

\* server::async_wrapper::Connection::read.
ConnectionRead(c) ==
    /\ Held(c, "s", "Connection")
    /\ ReadReturns(conns[c], "s")
    /\ LET r == read(conns[c], "s", TypedBufLen)
       IN  DoRead(c, "s", TypedBufLen, r, ConnectionReadResult(r))

\* What a send returns once its write_all has.
SendResult(api, op, c, side, ok) ==
    [(IF ok THEN Ret(api, op, "Ok") ELSE RetErr(api, op, "WriteError"))
        EXCEPT !.c = c, !.side = side]

SendOp(kind) == IF kind = "StreamData" THEN "write_all" ELSE "send"

\* The return of the send on the end (c, side) of the connection cn, with the
\* payload and the count of its bytes that were written.
SendReturn(cn, c, side, ok) ==
    [SendResult(cn.kind[side], SendOp(cn.kind[side]), c, side, ok) EXCEPT
        !.sent = cn.lastSent[side], !.n = cn.wrote[side]]

\* A send of `bytes` on the end (c, side) starts: write_all runs until it
\* returns or has to wait for room.
DoSend(c, side, bytes) ==
    /\ conns[c].nsent[side] < MaxSends + (IF conns[c].torn[side] THEN 1 ELSE 0)
    /\ LET w == write_all(StartSend(conns[c], side, bytes), side, bytes)
       IN  /\ conns' = [conns EXCEPT ![c] = w.cn]
           /\ ret' = IF w.done
                     THEN SendReturn(w.cn, c, side, w.ok)
                     ELSE ret
    /\ UNCHANGED <<files, listeners, os, oslog, acclog, hlog>>

\* Client::send.
ClientSend(c, bytes) ==
    /\ Held(c, "c", "Client")
    /\ DoSend(c, "c", bytes)

\* stream_data.stream.write_all(bytes) on an accepted StreamData.
StreamWriteAll(c, bytes) ==
    /\ Held(c, "s", "StreamData")
    /\ DoSend(c, "s", bytes)

\* AsyncConnection::send(response: impl Into<String>).
AsyncConnectionSend(c, side, text) ==
    /\ Held(c, side, "AsyncConnection")
    /\ DoSend(c, side, VecFromString(text))

\* server::async_wrapper::Connection::send.
ConnectionSend(c, text) ==
    /\ Held(c, "s", "Connection")
    /\ DoSend(c, "s", VecFromString(text))

\* A write_all that was waiting for room goes on.
WriteAllResume(c, side) ==
    /\ conns[c].st = "live"
    /\ conns[c].open[side]
    /\ conns[c].busy[side]
    /\ conns[c].kind[side] # "OneShot"
    /\ conns[c].wr[side] # << >>
    /\ WriteReturns(conns[c], side)
    /\ LET w == write_all(conns[c], side, conns[c].wr[side])
       IN  /\ conns' = [conns EXCEPT ![c] = w.cn]
           /\ ret' = IF w.done
                     THEN SendReturn(w.cn, c, side, w.ok)
                     ELSE ret
    /\ UNCHANGED <<files, listeners, os, oslog, acclog, hlog>>

InHandler(c) == \E l \in LIds : c \in listeners[l].running

\* The owner of an end drops it (Client, AsyncConnection, Connection, or a
\* StreamData that wait_connection returned): the descriptor is closed.
DropEnd(c, side) ==
    /\ conns[c].st = "live"
    /\ conns[c].open[side]
    /\ conns[c].kind[side] \in {"Client", "AsyncConnection", "Connection", "StreamData"}
    /\ ~conns[c].busy[side]
    /\ ~InHandler(c)
    /\ conns' = [conns EXCEPT ![c] = close(@, side)]
    /\ ret' = [Ret(conns[c].kind[side], "drop", "Ok") EXCEPT !.c = c, !.side = side]
    /\ UNCHANGED <<files, listeners, os, oslog, acclog, hlog>>

\* ------------------------------------------------------------- accept ----
\* The type an accepted connection is handed out as.
AcceptedAs(lkind) ==
    CASE lkind \in {"Server", "RawListener"} -> "StreamData"
      [] lkind = "AsyncListener" -> "Connection"
      [] OTHER -> "AsyncConnection"

AcceptOp(lkind) ==
    IF lkind \in {"Server", "RawListener"} THEN "wait_connection"
    ELSE "wait_for_connection"

\* What a successful accept returns: Ok(StreamData) from wait_connection,
\* Some(connection) from wait_for_connection.
AcceptSuccess(lkind, l, c) ==
    [Ret(lkind, AcceptOp(lkind),
         IF lkind \in {"Server", "RawListener"} THEN "Ok" ELSE "Some")
        EXCEPT !.c = c, !.n = l]

\* What a failed accept returns: wait_connection propagates the error with `?`,
\* wait_for_connection turns it into None with .ok().
AcceptFailure(lkind, l) ==
    IF lkind \in {"Server", "RawListener"}
    THEN [RetErr(lkind, AcceptOp(lkind), "AcceptError") EXCEPT !.n = l]
    ELSE [Ret(lkind, AcceptOp(lkind), "None") EXCEPT !.n = l]

\* A failed accept that closes the listener.
AfterFailedAcceptClosed(L) == [L EXCEPT !.fails = TRUE, !.st = "dropped"]

\* The listener after an accept that failed: accept(2) took nothing from the
\* backlog and the code touches no field (`fails` is the ghost record of it).
AfterFailedAccept(L) == [L EXCEPT !.fails = TRUE]

\* An accept that leaves the connection it returned in the listener's queue.
AcceptedKept(backlog) == backlog

\* accept(2) takes the oldest pending connection off the listener's queue:
\* the listener keeps nothing of the connection it hands out.
Accepted(backlog) == Tail(backlog)

\* The owner may call the listener: it is alive and listen is not running on it.
Callable(l) == listeners[l].st = "alive" /\ listeners[l].lpc = "off"

\* Server::wait_connection, RawListener::wait_connection,
\* AsyncServer::wait_for_connection, AsyncListener::wait_for_connection: accept
\* returns the oldest pending connection.
WaitConnection(l) ==
    /\ Callable(l)
    /\ listeners[l].backlog # << >>
    /\ LET c == Head(listeners[l].backlog)
       IN  /\ listeners' = [listeners EXCEPT ![l].backlog = Accepted(@), ![l].pend = FALSE]
           /\ conns' = [conns EXCEPT ![c].acc = TRUE,
                                     ![c].kind["s"] = AcceptedAs(listeners[l].kind)]
           /\ ret' = AcceptSuccess(listeners[l].kind, l, c)
    /\ UNCHANGED <<files, os, oslog, acclog, hlog>>

\* The same calls when accept(2) fails.
WaitConnectionFails(l) ==
    /\ Callable(l)
    /\ listeners' = [listeners EXCEPT ![l] = [AfterFailedAccept(@) EXCEPT !.pend = FALSE]]
    /\ ret' = AcceptFailure(listeners[l].kind, l)
    /\ UNCHANGED <<files, conns, os, oslog, acclog, hlog>>

\* ------------------------------------------------------------- listen ----
\* Server::listen / RawListener::listen is called.
ListenStart(l) ==
    /\ Callable(l)
    /\ listeners[l].kind \in {"Server", "RawListener"}
    /\ listeners' = [listeners EXCEPT ![l].lpc = "accept"]
    /\ UNCHANGED <<files, conns, os, oslog, acclog, hlog, ret>>

\* A loop that accepts again while the callback is still running.
ListenReadyEarly(L) == L.st = "alive" /\ L.lpc \in {"accept", "handler"}

\* The loop is at `for stream in self.listener.incoming()`: the previous
\* iteration, handler included, has returned.
ListenReady(L) == L.st = "alive" /\ L.lpc = "accept"

\* incoming() yields Ok(stream).
ListenAccept(l) ==
    /\ ListenReady(listeners[l])
    /\ listeners[l].backlog # << >>
    /\ LET c == Head(listeners[l].backlog)
       IN  /\ listeners' = [listeners EXCEPT ![l].backlog = Accepted(@),
                                            ![l].lpc = "call", ![l].cur = c]
           /\ conns' = [conns EXCEPT ![c].acc = TRUE, ![c].kind["s"] = "UnixStream"]
           /\ acclog' = [acclog EXCEPT ![l] = Append(@, c)]
    /\ UNCHANGED <<files, os, oslog, hlog, ret>>

\* incoming() yields Err: `stream?` returns it from listen.
ListenAcceptFails(l) ==
    /\ ListenReady(listeners[l])
    /\ listeners' = [listeners EXCEPT ![l] = [AfterFailedAccept(@) EXCEPT !.lpc = "off"]]
    /\ ret' = [RetErr(listeners[l].kind, "listen", "AcceptError") EXCEPT !.n = l]
    /\ UNCHANGED <<files, conns, os, oslog, acclog, hlog>>

\* handle_client wraps the stream in a StreamData and calls the callback.
HandleClient(l) ==
    /\ listeners[l].lpc = "call"
    /\ LET c == listeners[l].cur
       IN  /\ listeners' = [listeners EXCEPT ![l].lpc = "handler",
                                            ![l].running = @ \cup {c}]
           /\ conns' = [conns EXCEPT ![c].kind["s"] = "StreamData"]
           /\ hlog' = [hlog EXCEPT ![l] = Append(@, c)]
    /\ UNCHANGED <<files, os, oslog, acclog, ret>>

\* A handle_client that returns without dropping the StreamData.
CallbackReturnsKeepsOpen(l, c) ==
    /\ listeners[l].lpc = "handler"
    /\ c \in listeners[l].running
    /\ ~conns[c].busy["s"]
    /\ listeners' = [listeners EXCEPT ![l].lpc = "accept", ![l].cur = 0,
                                     ![l].running = @ \ {c}]
    /\ UNCHANGED <<files, conns, os, oslog, acclog, hlog, ret>>

\* The callback returns; handle_client drops the StreamData and returns Ok(()),
\* and the loop goes to its next iteration.
CallbackReturns(l, c) ==
    /\ listeners[l].lpc = "handler"
    /\ c \in listeners[l].running
    /\ ~conns[c].busy["s"]
    /\ listeners' = [listeners EXCEPT ![l].lpc = "accept", ![l].cur = 0,
                                     ![l].running = @ \ {c}]
    /\ conns' = [conns EXCEPT ![c] = close(@, "s")]
    /\ UNCHANGED <<files, os, oslog, acclog, hlog, ret>>

\* ------------------------------------------------------ one-shot client ----
\* ResponseOption: WaitForResponse(buf) with the buffer's length, or
\* DontWaitForResponse.
ResponseOptions ==
    {[policy |-> "DontWaitForResponse", cap |-> 0]}
        \cup {[policy |-> "WaitForResponse", cap |-> b] : b \in BufLens}

\* A one-shot client that keeps its connection and uses it again.
OneShotDialCached == IF oslog # << >> THEN oslog[Len(oslog)].con ELSE FreshC

\* UnixStream::connect of send_one_shot: the connection it dials is a new one.
OneShotDial == FreshC

\* A match that reads on both arms.
ReadsResponseAlways(policy) == TRUE

\* A match that reads on neither arm.
ReadsResponseNever(policy) == FALSE

\* `match wait_for_response`: whether the call reads after its write.
ReadsResponse(policy) == policy = "WaitForResponse"

\* A send_one_shot that leaks its descriptor.
OneShotLeak(cn) == cn

\* `con` goes out of scope when send_one_shot returns, on every path.
OneShotDrop(cn) == close(cn, "c")

\* Client::send_one_shot is called: it resolves the path and connects.
SendOneShot(data, name, opt) ==
    /\ os.pc = "idle"
    /\ \E c \in CIds : conns[c].st = "unused"
    /\ LET path == SendOneShotPath(name)
           l == ConnectTarget(path)
           c == OneShotDial
       IN  IF l = 0
           THEN /\ ret' = [RetErr("OneShot", "send_one_shot", "ConnectError") EXCEPT
                             !.name = name, !.path = path]
                /\ UNCHANGED <<conns, listeners, os>>
           ELSE /\ conns' = [conns EXCEPT ![c] =
                       [StartSend(NewConn(l, "OneShot"), "c", data) EXCEPT
                           !.wr["c"] = data, !.busy["c"] = TRUE]]
                /\ listeners' = [listeners EXCEPT ![l].backlog = Append(@, c)]
                /\ os' = [pc |-> "write", name |-> name, path |-> path,
                          policy |-> opt.policy, cap |-> opt.cap, con |-> c,
                          data |-> data, reads |-> 0]
                /\ UNCHANGED ret
    /\ UNCHANGED <<files, oslog, acclog, hlog>>

\* send_one_shot returns `result`, having left the connection as `cn` and made
\* `reads` reads: the call is logged with what the peer had done by then.
OneShotReturn(cn, result, reads) ==
    /\ conns' = [conns EXCEPT ![os.con] = OneShotDrop(cn)]
    /\ oslog' = Append(oslog, [con |-> os.con, tag |-> result.tag])
    /\ ret' = [result EXCEPT
                 !.c = os.con, !.side = "c", !.name = os.name, !.path = os.path,
                 !.policy = os.policy, !.cap = os.cap, !.reads = reads,
                 !.unread = cn.q["c"], !.nresp = cn.nsent["s"],
                 !.sent = cn.lastSent["s"],
                 !.served = (cn.q["s"] = << >> /\ ~cn.rst["c"]
                             /\ result.err \notin {"ReadError", "WriteError"})]
    /\ os' = IdleOs

\* con.write_all(data)?, then the match on the response option.
OneShotWrite ==
    /\ os.pc = "write"
    /\ LET cn == conns[os.con]
       IN  /\ cn.wr["c"] = << >> \/ WriteReturns(cn, "c")
           /\ LET w == write_all(cn, "c", cn.wr["c"])
              IN  IF ~w.done
                  THEN /\ conns' = [conns EXCEPT ![os.con] = w.cn]
                       /\ UNCHANGED <<os, oslog, ret>>
                  ELSE IF ~w.ok
                  THEN OneShotReturn(w.cn, RetErr("OneShot", "send_one_shot", "WriteError"), 0)
                  ELSE IF ReadsResponse(os.policy)
                  THEN /\ conns' = [conns EXCEPT ![os.con] = w.cn]
                       /\ os' = [os EXCEPT !.pc = "read"]
                       /\ UNCHANGED <<oslog, ret>>
                  ELSE OneShotReturn(w.cn, Ret("OneShot", "send_one_shot", "Ok"), 0)
    /\ UNCHANGED <<files, listeners, acclog, hlog>>

\* Ok(con.read(&mut buf)?): one read, whose count is the call's result.
OneShotRead ==
    /\ os.pc = "read"
    /\ ReadReturns(conns[os.con], "c")
    /\ LET r == read(conns[os.con], "c", os.cap)
       IN  OneShotReturn(r.cn, StdReadResult("OneShot", "send_one_shot", r), os.reads + 1)
    /\ UNCHANGED <<files, listeners, acclog, hlog>>

\* ----------------------------------------------------------- timeouts ----
\* UnixStream::set_read_timeout / set_write_timeout reject Some(Duration::ZERO)
\* with an InvalidInput error.
TimeoutRejected(t) == t = "Zero"

\* Client::new with its read_timeout and write_timeout arguments: connect, then
\* set the two timeouts; an error of either set drops the connected stream.
ClientNewTimed(name, rt, wt) ==
    /\ \E c \in CIds : conns[c].st = "unused"
    /\ IF IndexZeroPanics(name)
       THEN /\ ret' = [Ret("Client", "new", "Panic") EXCEPT !.name = name]
            /\ UNCHANGED <<conns, listeners>>
       ELSE LET path == ClientNewPath(name)
                l == ConnectTarget(path)
                cn == [NewConn(l, "Client") EXCEPT
                          !.tmo = [r |-> rt = "Some", w |-> wt = "Some"]]
            IN  IF l = 0
                THEN /\ ret' = [RetErr("Client", "new", "ConnectError") EXCEPT
                                  !.name = name, !.path = path]
                     /\ UNCHANGED <<conns, listeners>>
                ELSE /\ listeners' = [listeners EXCEPT ![l].backlog = Append(@, FreshC)]
                     /\ IF TimeoutRejected(rt) \/ TimeoutRejected(wt)
                        THEN /\ conns' = [conns EXCEPT ![FreshC] =
                                    close([cn EXCEPT !.tmo = NoConn.tmo], "c")]
                             /\ ret' = [RetErr("Client", "new", "InvalidInput") EXCEPT
                                          !.name = name, !.path = path]
                        ELSE /\ conns' = [conns EXCEPT ![FreshC] = cn]
                             /\ ret' = [Ret("Client", "new", "Ok") EXCEPT
                                          !.c = FreshC, !.n = l, !.name = name,
                                          !.path = path]
    /\ UNCHANGED <<files, os, oslog, acclog, hlog>>

\* Client::set_read_timeout (dir "r") and Client::set_write_timeout (dir "w").
SetTimeout(c, dir, t) ==
    /\ Held(c, "c", "Client")
    /\ IF TimeoutRejected(t)
       THEN /\ ret' = [RetErr("Client", "set_timeout", "InvalidInput") EXCEPT !.c = c]
            /\ UNCHANGED conns
       ELSE /\ conns' = [conns EXCEPT ![c].tmo[dir] = (t = "Some")]
            /\ ret' = [Ret("Client", "set_timeout", "Ok") EXCEPT !.c = c]
    /\ UNCHANGED <<files, listeners, os, oslog, acclog, hlog>>

\* A timeout that never expires.
TimesOutNever(cn, dir) == FALSE

\* Whether a blocked read (dir "r") or write (dir "w") of the client end gives
\* up after a while: the timeout set on the stream, if any.
TimesOut(cn, dir) == cn.tmo[dir]

\* Client::read is called while nothing can be read: read(2) blocks.
ClientReadWaits(c, cap) ==
    /\ Held(c, "c", "Client")
    /\ ~ReadReturns(conns[c], "c")
    /\ conns' = [conns EXCEPT ![c].busy["c"] = TRUE, ![c].rdcap = cap]
    /\ UNCHANGED <<files, listeners, os, oslog, acclog, hlog, ret>>

\* A Client::read blocked in read(2).
ReadWaiting(c) ==
    conns[c].st = "live" /\ conns[c].open["c"] /\ conns[c].rdcap > 0

\* The blocked read returns: bytes arrived, or the peer closed.
ClientReadWakes(c) ==
    /\ ReadWaiting(c)
    /\ ReadReturns(conns[c], "c")
    /\ LET cn == [conns[c] EXCEPT !.busy["c"] = FALSE, !.rdcap = 0]
           r == read(cn, "c", conns[c].rdcap)
       IN  DoRead(c, "c", conns[c].rdcap, r, StdReadResult("Client", "read", r))

\* The blocked read gives up: read(2) fails once the read timeout has passed.
ClientReadTimesOut(c) ==
    /\ ReadWaiting(c)
    /\ ~ReadReturns(conns[c], "c")
    /\ TimesOut(conns[c], "r")
    /\ conns' = [conns EXCEPT ![c].busy["c"] = FALSE, ![c].rdcap = 0]
    /\ ret' = [RetErr("Client", "read", "Timeout") EXCEPT
                 !.c = c, !.side = "c", !.cap = conns[c].rdcap]
    /\ UNCHANGED <<files, listeners, os, oslog, acclog, hlog>>

\* A Client::send whose write_all is blocked in write(2).
WriteWaiting(c) ==
    /\ conns[c].st = "live"
    /\ conns[c].open["c"]
    /\ conns[c].kind["c"] = "Client"
    /\ conns[c].busy["c"]
    /\ conns[c].rdcap = 0

\* The blocked write gives up: write(2) fails once the write timeout has
\* passed, and write_all returns that error to send.
ClientWriteTimesOut(c) ==
    /\ WriteWaiting(c)
    /\ ~WriteReturns(conns[c], "c")
    /\ TimesOut(conns[c], "w")
    /\ LET cn == [conns[c] EXCEPT !.busy["c"] = FALSE, !.wr["c"] = << >>,
                                  !.intact["c"] = FALSE,
                                  !.torn["c"] = @ \/ conns[c].wrote["c"] > 0]
       IN  /\ conns' = [conns EXCEPT ![c] = cn]
           /\ ret' = [SendReturn(cn, c, "c", FALSE) EXCEPT !.err = "Timeout"]
    /\ UNCHANGED <<files, listeners, os, oslog, acclog, hlog>>

\* -------------------------------------------------------- async tasks ----
\* Whether a wait_connection / wait_for_connection that finds no pending
\* connection keeps the thread that called it: Server and RawListener call the
\* blocking accept, and AsyncListener::wait_for_connection calls that same
\* blocking RawListener::wait_connection from inside its async fn;
\* AsyncServer::wait_for_connection awaits tokio's accept, which yields.
AcceptBlocksThread(lkind) == lkind # "AsyncServer"

\* The single thread of the server's cooperative scheduler is inside a blocking
\* accept: no task of the scheduler runs until that accept returns.
ExecutorBlocked ==
    \E l \in LIds : listeners[l].pend /\ AcceptBlocksThread(listeners[l].kind)

\* wait_connection / wait_for_connection is called while no connection is
\* pending: the call waits in accept.
WaitConnectionPending(l) ==
    /\ Callable(l)
    /\ ~listeners[l].pend
    /\ listeners[l].backlog = << >>
    /\ listeners' = [listeners EXCEPT ![l].pend = TRUE]
    /\ UNCHANGED <<files, conns, os, oslog, acclog, hlog, ret>>

\* An async end whose send is waiting for room in the peer's queue.
SendPending(c, side) ==
    /\ conns[c].st = "live"
    /\ conns[c].open[side]
    /\ conns[c].busy[side]
    /\ conns[c].kind[side] \in {"AsyncConnection", "Connection"}

\* The task awaiting AsyncConnection::send / Connection::send is dropped while
\* write_all is pending: the future and the connection the task owns are
\* dropped with it. What write_all had written stays with the peer.
CancelSend(c, side) ==
    /\ SendPending(c, side)
    /\ conns' = [conns EXCEPT ![c] = close([@ EXCEPT !.intact[side] = FALSE], side)]
    /\ ret' = [Ret(conns[c].kind[side], "send", "Cancelled") EXCEPT
                 !.c = c, !.side = side, !.sent = conns[c].lastSent[side],
                 !.n = conns[c].wrote[side]]
    /\ UNCHANGED <<files, listeners, os, oslog, acclog, hlog>>

\* ----------------------------------------------------- specifications ----
\* The whole system: every operation, on every input of the input spaces.
Next ==
    \/ \E k \in ListenerKinds, n \in Names : ListenerNew(k, n)
    \/ \E l \in LIds : DropListener(l)
    \/ \E p \in SocketPaths : CallerRemovesFile(p)
    \/ \E n \in Names : ClientNew(n)
    \/ \E n \in Names : new_client_async(n)
    \/ \E c \in CIds, b \in BufLens : ClientRead(c, b)
    \/ \E c \in CIds, b \in BufLens : StreamRead(c, b)
    \/ \E c \in CIds, sd \in Sides, b \in BufLens : AsyncConnectionReadRaw(c, sd, b)
    \/ \E c \in CIds, sd \in Sides : AsyncConnectionRead(c, sd)
    \/ \E c \in CIds : ConnectionRead(c)
    \/ \E c \in CIds, p \in Payloads : ClientSend(c, p)
    \/ \E c \in CIds, p \in Payloads : StreamWriteAll(c, p)
    \/ \E c \in CIds, sd \in Sides, t \in Texts : AsyncConnectionSend(c, sd, t)
    \/ \E c \in CIds, t \in Texts : ConnectionSend(c, t)
    \/ \E c \in CIds, sd \in Sides : WriteAllResume(c, sd)
    \/ \E c \in CIds, sd \in Sides : DropEnd(c, sd)
    \/ \E l \in LIds : WaitConnection(l)
    \/ \E l \in LIds : WaitConnectionFails(l)
    \/ \E l \in LIds : ListenStart(l)
    \/ \E l \in LIds : ListenAccept(l)
    \/ \E l \in LIds : ListenAcceptFails(l)
    \/ \E l \in LIds : HandleClient(l)
    \/ \E l \in LIds, c \in CIds : CallbackReturns(l, c)
    \/ \E d \in Payloads, n \in Names, o \in ResponseOptions : SendOneShot(d, n, o)
    \/ OneShotWrite
    \/ OneShotRead
    \/ \E l \in LIds : WaitConnectionPending(l)
    \/ \E c \in CIds, sd \in Sides : CancelSend(c, sd)
    \/ \E n \in Names, rt \in Timeouts, wt \in Timeouts : ClientNewTimed(n, rt, wt)
    \/ \E c \in CIds, dir \in {"r", "w"}, t \in Timeouts : SetTimeout(c, dir, t)
    \/ \E c \in CIds, b \in BufLens : ClientReadWaits(c, b)
    \/ \E c \in CIds : ClientReadWakes(c)
    \/ \E c \in CIds : ClientReadTimesOut(c)
    \/ \E c \in CIds : ClientWriteTimesOut(c)

SpecAll == Init /\ [][Next]_vars

NoListenerYet == \A l \in LIds : listeners[l].st = "none"

\* Every connection made so far is closed at both ends.
NoLiveConn == \A c \in CIds : conns[c].st # "live"

NoConnYet == \A c \in CIds : conns[c].st = "unused"

\* Binding and dialing: every constructor on every name, no data.
NextNames ==
    \/ \E k \in {"Server", "RawListener", "AsyncServer"}, n \in Names : ListenerNew(k, n)
    \/ \E l \in LIds : DropListener(l)
    \/ \E p \in SocketPaths : CallerRemovesFile(p)
    \/ \E n \in Names : NoConnYet /\ ClientNew(n)
    \/ \E n \in Names : NoConnYet /\ new_client_async(n)
    \/ \E n \in Names :
          NoConnYet /\ SendOneShot(<<65>>, n, [policy |-> "DontWaitForResponse", cap |-> 0])
    \/ OneShotWrite

SpecNames == Init /\ [][NextNames]_vars

\* One connection between a persistent client and an accepted end, of every
\* variant: sends (cancelled or timed out, too), reads and drops in every order.
NextConn ==
    \/ \E k \in {"Server", "AsyncServer", "AsyncListener"} :
          NoListenerYet /\ ListenerNew(k, RelName)
    \/ NoConnYet /\ ClientNew(RelName)
    \/ NoConnYet /\ new_client_async(RelName)
    \/ \E l \in LIds : WaitConnection(l)
    \/ \E c \in CIds, b \in BufLens : ClientRead(c, b)
    \/ \E c \in CIds, b \in BufLens : StreamRead(c, b)
    \/ \E c \in CIds, sd \in Sides, b \in BufLens : AsyncConnectionReadRaw(c, sd, b)
    \/ \E c \in CIds, sd \in Sides : AsyncConnectionRead(c, sd)
    \/ \E c \in CIds : ConnectionRead(c)
    \/ \E c \in CIds, p \in Payloads : ClientSend(c, p)
    \/ \E c \in CIds, p \in Payloads : StreamWriteAll(c, p)
    \/ \E c \in CIds, sd \in Sides, t \in Texts : AsyncConnectionSend(c, sd, t)
    \/ \E c \in CIds, t \in Texts : ConnectionSend(c, t)
    \/ \E c \in CIds, sd \in Sides : WriteAllResume(c, sd)
    \/ \E c \in CIds, sd \in Sides : CancelSend(c, sd)
    \/ \E c \in CIds, sd \in Sides : DropEnd(c, sd)

SpecConn == Init /\ [][NextConn]_vars

\* The server holds no accepted connection (it serves one at a time, as the
\* loops of the crate's examples do).
ServerIdle == \A c \in CIds : ~(conns[c].acc /\ conns[c].open["s"])

\* One-shot calls, one after the other, against one Server that serves one
\* connection at a time with wait_connection.
NextOneShot ==
    \/ NoListenerYet /\ ListenerNew("Server", RelName)
    \/ \E l \in LIds : ServerIdle /\ WaitConnection(l)
    \/ \E c \in CIds, b \in BufLens : StreamRead(c, b)
    \/ \E c \in CIds, p \in Payloads : StreamWriteAll(c, p)
    \/ \E c \in CIds, sd \in Sides : WriteAllResume(c, sd)
    \/ \E c \in CIds : DropEnd(c, "s")
    \/ \E d \in Payloads, o \in ResponseOptions : SendOneShot(d, RelName, o)
    \/ OneShotWrite
    \/ OneShotRead

SpecOneShot == Init /\ [][NextOneShot]_vars

\* Accepting: one listener of any kind, persistent clients dialing it, accepts
\* that succeed and fail, and the listen loop with its callback.
NextAccept ==
    \/ \E k \in ListenerKinds : NoListenerYet /\ ListenerNew(k, RelName)
    \/ ClientNew(RelName)
    \/ new_client_async(RelName)
    \/ \E l \in LIds : WaitConnection(l)
    \/ \E l \in LIds : WaitConnectionFails(l)
    \/ \E l \in LIds : ListenStart(l)
    \/ \E l \in LIds : ListenAccept(l)
    \/ \E l \in LIds : ListenAcceptFails(l)
    \/ \E l \in LIds : HandleClient(l)
    \/ \E l \in LIds, c \in CIds : CallbackReturns(l, c)
    \/ \E c \in CIds, sd \in Sides : DropEnd(c, sd)

SpecAccept == Init /\ [][NextAccept]_vars

\* At most one connection is open at either end.
AtMostOneLiveConn == Cardinality({c \in CIds : conns[c].st = "live"}) <= 1

\* A Server or RawListener in listen whose callback reads and writes, and
\* Clients, two at a time at most, that send, read (waiting when there is
\* nothing to read) and drop; requests and responses of one byte.
NextListen ==
    \/ \E k \in {"Server", "RawListener"} : NoListenerYet /\ ListenerNew(k, RelName)
    \/ AtMostOneLiveConn /\ ClientNew(RelName)
    \/ \E l \in LIds : ListenStart(l)
    \/ \E l \in LIds : ListenAccept(l)
    \/ \E l \in LIds : HandleClient(l)
    \/ \E l \in LIds, c \in CIds : CallbackReturns(l, c)
    \/ \E c \in CIds : StreamRead(c, 3)
    \/ \E c \in CIds : StreamWriteAll(c, <<65>>)
    \/ \E c \in CIds : ClientSend(c, <<65>>)
    \/ \E c \in CIds : ClientRead(c, 3)
    \/ \E c \in CIds : ClientReadWaits(c, 3)
    \/ \E c \in CIds : ClientReadWakes(c)
    \/ \E c \in CIds : DropEnd(c, "c")

SpecListen == Init /\ [][NextListen]_vars

\* A read of the server's task for the accepted connection c, when the
\* scheduler's thread is free to run the task.
ServerTaskReads(c) ==
    /\ ~ExecutorBlocked
    /\ (AsyncConnectionRead(c, "s") \/ ConnectionRead(c))

\* An async server on a single-threaded cooperative scheduler: one task accepts,
\* one task per accepted connection reads what its client sends. The clients
\* are tasks of other processes, and come one after the other.
NextAsync ==
    \/ \E k \in {"AsyncServer", "AsyncListener"} : NoListenerYet /\ ListenerNew(k, RelName)
    \/ NoLiveConn /\ new_client_async(RelName)
    \/ \E c \in CIds, t \in Texts : AsyncConnectionSend(c, "c", t)
    \/ \E c \in CIds : WriteAllResume(c, "c")
    \/ \E c \in CIds : DropEnd(c, "c")
    \/ \E l \in LIds : ~ExecutorBlocked /\ WaitConnectionPending(l)
    \/ \E l \in LIds : WaitConnection(l)
    \/ \E c \in CIds : ServerTaskReads(c)
    \/ \E c \in CIds : ~ExecutorBlocked /\ DropEnd(c, "s")

\* The typed reads of an async server of what its client sends, payloads longer
\* than the buffer of a typed read included.
NextTyped ==
    \/ \E k \in {"AsyncServer", "AsyncListener"} : NoListenerYet /\ ListenerNew(k, RelName)
    \/ NoConnYet /\ new_client_async(RelName)
    \/ \E c \in CIds : LargeSocketBuffers(c)
    \/ \E l \in LIds : WaitConnection(l)
    \/ \E c \in CIds, t \in Texts \cup {LargeText} : AsyncConnectionSend(c, "c", t)
    \/ \E c \in CIds : WriteAllResume(c, "c")
    \/ \E c \in CIds : AsyncConnectionRead(c, "s")
    \/ \E c \in CIds : ConnectionRead(c)
    \/ \E c \in CIds, sd \in Sides : DropEnd(c, sd)

SpecTyped == Init /\ [][NextTyped]_vars

\* A Client with or without timeouts against a Server that accepts it and may
\* or may not write to it (a byte) and read from it.
NextTimeout ==
    \/ NoListenerYet /\ ListenerNew("Server", RelName)
    \/ \E rt \in Timeouts, wt \in Timeouts : NoConnYet /\ ClientNewTimed(RelName, rt, wt)
    \/ \E c \in CIds, dir \in {"r", "w"}, t \in Timeouts : SetTimeout(c, dir, t)
    \/ \E l \in LIds : WaitConnection(l)
    \/ \E c \in CIds, b \in BufLens : StreamRead(c, b)
    \/ \E c \in CIds : StreamWriteAll(c, <<65>>)
    \/ \E c \in CIds : WriteAllResume(c, "s")
    \/ \E c \in CIds : DropEnd(c, "s")
    \/ \E c \in CIds, b \in BufLens : ClientRead(c, b)
    \/ \E c \in CIds : ClientReadWaits(c, 3)
    \/ \E c \in CIds : ClientReadWakes(c)
    \/ \E c \in CIds : ClientReadTimesOut(c)
    \/ \E c \in CIds, p \in Payloads : ClientSend(c, p)
    \/ \E c \in CIds : WriteAllResume(c, "c")
    \/ \E c \in CIds : ClientWriteTimesOut(c)
    \/ \E c \in CIds : DropEnd(c, "c")

\* Time passes and the kernel wakes blocked calls: a blocked read or write that
\* can return, or whose timeout can expire, does.
SpecTimeout ==
    /\ Init /\ [][NextTimeout]_vars
    /\ \A c \in CIds :
          /\ WF_vars(ClientReadWakes(c))
          /\ WF_vars(ClientReadTimesOut(c))
          /\ WF_vars(WriteAllResume(c, "c"))
          /\ WF_vars(ClientWriteTimesOut(c))

\* The scheduler runs a task that stays ready: a read that can return is made.
SpecAsync ==
    Init /\ [][NextAsync]_vars /\ \A c \in CIds : WF_vars(ServerTaskReads(c))

\* ------------------------------------------------------------- claims ----
IsPrefix(a, b) == Len(a) <= Len(b) /\ SubSeq(b, 1, Len(a)) = a

Alive(l) == listeners[l].st = "alive"

\* C1: while a Listener bound to a path is alive and the caller has not removed
\* its socket file, no later bind yields a second live Listener on that path.
C1_SecondBindFails ==
    \A l1, l2 \in LIds :
        (l1 < l2 /\ Alive(l1) /\ Alive(l2) /\ ~listeners[l1].removed)
            => listeners[l1].path # listeners[l2].path

\* The crate's own read operations (a StreamData's stream is read with std's
\* read, which is not one of them).
IsCrateRead(r) ==
    r.op \in {"read", "read_raw"} /\ r.api \in {"Client", "AsyncConnection", "Connection"}

\* C2: a read on a connection whose peer has closed, with nothing left unread,
\* returns EndOfStream, and no read of any variant returns success with zero
\* bytes.
C2_ReadAtEofIsEndOfStream ==
    IsCrateRead(ret) =>
        /\ ret.eof => (ret.tag = "Err" /\ ret.err = "EndOfStream")
        /\ ~(ret.tag = "Ok" /\ ret.n = 0)

\* A read that hands back the bytes themselves (readRaw).
IsRawRead(r) ==
    \/ r.op = "read_raw"
    \/ r.op = "read" /\ r.api \in {"Client", "StreamData"}

\* The read was the first since a send on the other end returned Ok, the send
\* had started on an empty queue, and the buffer holds the payload.
ReadOfWholeSend(r) == IsRawRead(r) /\ r.whole /\ r.cap >= Len(r.sent)

\* C3, as claimed: for every payload, a send followed by one raw read on the
\* peer, into a buffer that holds the payload, returns the payload and its
\* length.
C3_SendThenReadRaw ==
    ReadOfWholeSend(ret) =>
        (ret.tag = "Ok" /\ ret.n = Len(ret.sent) /\ ret.data = ret.sent)

\* C3, amended: the same for every non-empty payload.
C3_NonEmptySendThenReadRaw ==
    (ReadOfWholeSend(ret) /\ ret.sent # << >>) =>
        (ret.tag = "Ok" /\ ret.n = Len(ret.sent) /\ ret.data = ret.sent)

C3_Witness ==
    /\ ReadOfWholeSend(ret)
    /\ ret.op = "read_raw"
    /\ ret.sent = <<65>>
    /\ ret.tag = "Ok"

\* A constructor or dial that resolved a name.
IsResolution(r) ==
    /\ r.op \in {"new", "new_client_async", "send_one_shot"}
    /\ r.tag # "Panic"
    /\ (r.op = "send_one_shot" => (r.tag = "Ok" \/ r.err = "ConnectError"))

\* C4: the Listener constructor, the persistent client constructor and the
\* one-shot client resolve a name to the same path, so that a listener bound
\* with a name is reached by a dial of that name.
C4_SameResolution ==
    \A l \in LIds :
        (Alive(l) /\ IsResolution(ret) /\ ret.name = listeners[l].name)
            => ret.path = listeners[l].path

IsOneShotReturn(r) == r.op = "send_one_shot" /\ r.policy # "-"

\* C5: a one-shot send with DontWaitForResponse that connected and wrote
\* returns 0, has made no read, and has closed its connection, whatever the
\* peer wrote meanwhile.
C5_DontWaitReturnsZeroWithoutRead ==
    (IsOneShotReturn(ret) /\ ret.policy = "DontWaitForResponse" /\ ret.tag = "Ok") =>
        /\ ret.n = 0
        /\ ret.data = << >>
        /\ ret.reads = 0
        /\ ~conns[ret.c].open["c"]

C5_Witness ==
    /\ IsOneShotReturn(ret)
    /\ ret.policy = "DontWaitForResponse"
    /\ ret.tag = "Ok"
    /\ ret.unread # << >>

\* The server read the whole request and made one send, of a response the
\* caller's buffer holds.
ServedOnce(r) ==
    /\ IsOneShotReturn(r)
    /\ r.policy = "WaitForResponse"
    /\ r.served
    /\ r.nresp = 1
    /\ r.cap >= Len(r.sent)

\* C6, as claimed: then send_one_shot returns the response's length and the
\* buffer starts with the response.
C6_ResponseReturnedWhole ==
    ServedOnce(ret) =>
        (ret.tag = "Ok" /\ ret.n = Len(ret.sent) /\ ret.data = ret.sent)

\* C6, amended: the same for a response that one write transfers whole (one no
\* longer than the socket buffer).
C6_ShortResponseReturnedWhole ==
    (ServedOnce(ret) /\ Len(ret.sent) <= SockCap) =>
        (ret.tag = "Ok" /\ ret.n = Len(ret.sent) /\ ret.data = ret.sent)

C6_Witness ==
    /\ ServedOnce(ret)
    /\ ret.sent = <<255, 65>>
    /\ ret.n = 2

\* C7: once send_one_shot has returned, on any path, the connection it dialed
\* is closed on its side.
C7_OneShotConnClosed ==
    /\ \A i \in 1..Len(oslog) : ~conns[oslog[i].con].open["c"]
    /\ os.pc = "idle" =>
          \A c \in CIds : conns[c].kind["c"] = "OneShot" => ~conns[c].open["c"]

C7_Witness ==
    /\ Len(oslog) = 2
    /\ oslog[1].tag = "Err"
    /\ oslog[2].tag = "Ok"
    /\ os.pc = "idle"

\* C8: one-shot calls keep nothing between them: every call dials a connection
\* of its own, which no earlier call used, and between calls the client holds
\* no state.
C8_CallsIndependent ==
    /\ \A i, j \in 1..Len(oslog) : i # j => oslog[i].con # oslog[j].con
    /\ os.pc # "idle" => \A i \in 1..Len(oslog) : oslog[i].con # os.con
    /\ os.pc = "idle" => os = IdleOs

C8_Witness ==
    /\ Len(oslog) = 2
    /\ oslog[1].tag = "Ok"
    /\ oslog[2].tag = "Ok"
    /\ IsOneShotReturn(ret)
    /\ ret.n > 0

IsAcceptFailure(r) ==
    r.op \in {"wait_connection", "wait_for_connection"} /\ r.tag \notin {"Ok", "Some"}

C10_ListenSequential ==
    \A l \in LIds :
        /\ Cardinality(listeners[l].running) <= 1
        /\ IsPrefix(hlog[l], acclog[l])
        /\ Len(acclog[l]) - Len(hlog[l]) = (IF listeners[l].lpc = "call" THEN 1 ELSE 0)
        /\ \A i, j \in 1..Len(hlog[l]) : i # j => hlog[l][i] # hlog[l][j]
        /\ listeners[l].lpc \in {"accept", "call"} => listeners[l].running = {}
        /\ listeners[l].lpc = "handler" =>
              listeners[l].running = {hlog[l][Len(hlog[l])]}

C10_Witness ==
    \E l \in LIds :
        /\ Len(hlog[l]) = 2
        /\ listeners[l].lpc = "handler"

\* listen returned because one iteration of its loop failed.
ListenEndedByFailure(r) == r.op = "listen" /\ r.tag = "Err"

\* C11: an error in one iteration of listen ends that iteration only: the
\* listener whose iteration failed is still in its accept loop, ready to accept
\* and handle later connections.
C11_ListenSurvivesFailedIteration ==
    \A l \in LIds :
        (Alive(l) /\ ListenEndedByFailure(ret) /\ ret.n = l)
            => ListenReady(listeners[l])

\* The server's task for the accepted connection c has bytes to read.
ServerReadReady(c) ==
    /\ conns[c].st = "live"
    /\ conns[c].acc
    /\ conns[c].open["s"]
    /\ conns[c].kind["s"] \in {"AsyncConnection", "Connection"}
    /\ conns[c].q["s"] # << >>

\* C12: on the single-threaded scheduler of an async server, a task whose read
\* is ready makes progress although another task waits in accept: the bytes
\* queued for it are read (or it drops its connection).
C12_ReadyTaskProgresses ==
    \A c \in CIds : ServerReadReady(c) ~> ~ServerReadReady(c)

\* A send that was cancelled while pending.
IsCancelledSend(r) == r.op = "send" /\ r.tag = "Cancelled"

\* C13: when the task awaiting an async send is dropped while the send is
\* pending, the descriptor is released and the peer has received the whole
\* payload or none of it.
C13_CancelledSendAllOrNothing ==
    IsCancelledSend(ret) =>
        /\ ~conns[ret.c].open[ret.side]
        /\ ret.n \in {0, Len(ret.sent)}

\* The errors of a write that failed: the peer is gone, or the write timed out.
WriteFailures == {"WriteError", "Timeout"}

\* A return of the crate's send.
IsSendReturn(r) ==
    /\ r.op = "send"
    /\ r.api \in {"Client", "AsyncConnection", "Connection"}
    /\ r.tag \in {"Ok", "Err"}

\* An end inside a send of the crate that has not returned.
InSend(c, side) ==
    /\ conns[c].st = "live"
    /\ conns[c].busy[side]
    /\ ~(side = "c" /\ conns[c].rdcap > 0)
    /\ conns[c].kind[side] \in {"Client", "AsyncConnection", "Connection"}

\* C14: send returns Ok only when every byte of the payload has been written,
\* and a WriteError otherwise; while bytes remain unwritten and no write has
\* failed, the call has not returned: it goes on with the bytes that remain.
C14_SendWritesAllOrFails ==
    /\ IsSendReturn(ret) =>
          IF ret.tag = "Ok" THEN ret.n = Len(ret.sent) ELSE ret.err \in WriteFailures
    /\ \A c \in CIds, sd \in Sides :
          InSend(c, sd) =>
              /\ conns[c].wr[sd] # << >>
              /\ conns[c].wrote[sd] + Len(conns[c].wr[sd]) = Len(conns[c].lastSent[sd])
              /\ conns[c].wr[sd] = Drop(conns[c].lastSent[sd], conns[c].wrote[sd])

\* A send of a payload longer than the socket buffer returned Ok.
C14_Witness ==
    /\ IsSendReturn(ret)
    /\ ret.tag = "Ok"
    /\ Len(ret.sent) > SockCap
    /\ ret.n = Len(ret.sent)

\* C15: on a dialed connection with a read (write) timeout set, a read (write)
\* that is blocked returns after a while: with what arrived, or, when the peer
\* never writes (never drains), with a timeout error. A timeout error is only
\* ever returned on a connection that has the timeout set.
C15_TimeoutEndsBlockedCall ==
    /\ \A c \in CIds :
          (ReadWaiting(c) /\ conns[c].tmo["r"]) ~> ~ReadWaiting(c)
    /\ \A c \in CIds :
          (WriteWaiting(c) /\ conns[c].tmo["w"]) ~> ~WriteWaiting(c)
    /\ [](ret.err = "Timeout" =>
            /\ ret.api = "Client"
            /\ (conns[ret.c].st = "live" =>
                   conns[ret.c].tmo[IF ret.op = "read" THEN "r" ELSE "w"]))

\* A read gave up with a timeout error while its peer, still connected, had
\* written nothing.
C15_Witness ==
    /\ ret.op = "read"
    /\ ret.err = "Timeout"
    /\ conns[ret.c].open["s"]
    /\ conns[ret.c].nsent["s"] = 0

Occurrences(seq, x) == Cardinality({i \in 1..Len(seq) : seq[i] = x})

\* Who holds the server end of the connection c: a listener's queue of pending
\* connections, the loop of listen (between accept and the call of the
\* callback), a running callback, or the caller wait_connection /
\* wait_for_connection returned it to.
Holders(c) ==
    {<<"pending", l>> : l \in {k \in LIds : Occurrences(listeners[k].backlog, c) > 0}}
        \cup {<<"listen", l>> :
                l \in {k \in LIds : listeners[k].lpc = "call" /\ listeners[k].cur = c}}
        \cup {<<"callback", l>> : l \in {k \in LIds : c \in listeners[k].running}}
        \cup (IF /\ conns[c].acc
                 /\ conns[c].kind["s"] \in {"StreamData", "Connection", "AsyncConnection"}
                 /\ \A l \in LIds : Occurrences(hlog[l], c) = 0
              THEN {<<"caller", 0>>} ELSE {})

\* C16: every connected descriptor has exactly one owner: once a connection is
\* accepted no listener's queue holds it, listen's loop has let go of it when
\* the callback runs, and a connection is passed to at most one callback
\* invocation.
C16_OneOwner ==
    \A c \in CIds :
        (conns[c].st = "live" /\ conns[c].open["s"]) =>
            /\ Cardinality(Holders(c)) = 1
            /\ \A l \in LIds : Occurrences(listeners[l].backlog, c) <= 1
            /\ conns[c].acc => \A l \in LIds : Occurrences(listeners[l].backlog, c) = 0
            /\ Cardinality({l \in LIds : Occurrences(hlog[l], c) > 0}) <= 1
            /\ \A l \in LIds : Occurrences(hlog[l], c) <= 1

\* One connection is in the hands of a callback of listen while the caller
\* still owns another, which wait_connection returned earlier.
C16_Witness ==
    \E l \in LIds, c1, c2 \in CIds :
        /\ c1 # c2
        /\ c2 \in listeners[l].running
        /\ conns[c1].st = "live" /\ conns[c1].acc /\ conns[c1].open["s"]
        /\ Holders(c1) = {<<"caller", 0>>}

\* Every read of the end (c, side) so far returned the bytes next in line of
\* what its peer sent, payload after payload.
ReadInOrder(c, side) == ~conns[c].misorder[side]

\* C17: for any sequence of sends on one end, what the peer's successive reads
\* return, concatenated, is a prefix of the payloads concatenated in send order.
C17_InOrderDelivery ==
    \A c \in CIds, sd \in Sides : conns[c].st = "live" => ReadInOrder(c, sd)

\* The same holds, and what is queued for the peer is what comes next, as long
\* as no send of that end has failed after writing a part of its payload.
InOrderDeliveryOfWholeSends ==
    \A c \in CIds, sd \in Sides :
        (conns[c].st = "live" /\ ~conns[c].torn[Peer(sd)]) =>
            /\ ReadInOrder(c, sd)
            /\ conns[c].open[sd] => IsPrefix(conns[c].q[sd], conns[c].ahead[sd])

\* C18: a bind on a path where a dropped Listener left its socket file
\* succeeds: the constructor removes the file, then binds, and the new
\* Listener owns the path.
C18_BindOverStaleSocketSucceeds ==
    (ret.op = "new" /\ ret.stale) =>
        /\ ret.tag = "Ok"
        /\ Alive(ret.n)
        /\ listeners[ret.n].path = ret.path
        /\ files[ret.path] = ret.n

\* A constructor has bound a path that held the socket file of a dropped
\* Listener.
C18_Witness ==
    /\ ret.op = "new"
    /\ ret.stale
    /\ ret.tag = "Ok"
    /\ \E l \in LIds : listeners[l].st = "dropped"

\* A Listener or client constructor has returned (or unwound).
IsConstructorReturn(r) == r.op \in {"new", "new_client_async"}

\* C19: name resolution has no error conditions: no constructor panics on any
\* name, and the empty name resolves to the base directory followed by '/'.
C19_ResolutionNeverFails ==
    IsConstructorReturn(ret) =>
        /\ ret.tag # "Panic"
        /\ ret.name = EmptyName => ret.path = SOCKET_PATH \o <<"/">>

\* A typed read (AsyncConnection::read, Connection::read) that returned a value.
IsTypedRead(r) ==
    r.op = "read" /\ r.api \in {"AsyncConnection", "Connection"} /\ r.tag = "Ok"

\* C20: a typed read consumes at most 1024 bytes: its value is decoded from
\* the first 1024 bytes queued at most, bytes are left over only when it took
\* 1024, the bytes left over stay queued and every read returns the bytes next
\* in line of what the peer sent.
C20_TypedReadTakesAtMostBuffer ==
    /\ IsTypedRead(ret) =>
          /\ ret.n <= 1024
          /\ Len(ret.data) = ret.n
          /\ ret.unread # << >> => ret.n = 1024
          /\ ret.whole =>
                /\ ret.data = from_utf8_lossy(SubSeq(ret.sent, 1, ret.n))
                /\ ret.unread = SubSeq(ret.sent, ret.n + 1, Len(ret.sent))
          /\ (conns[ret.c].st = "live" /\ conns[ret.c].open[ret.side]) =>
                IsPrefix(ret.unread, conns[ret.c].q[ret.side])
    /\ \A c \in CIds, sd \in Sides :
          conns[c].st = "live" =>
              /\ ReadInOrder(c, sd)
              /\ conns[c].open[sd] => IsPrefix(conns[c].q[sd], conns[c].ahead[sd])

\* A typed read of a payload of 1025 bytes has returned the text of the first
\* 1024, and the last byte is still queued.
C20_Witness ==
    /\ IsTypedRead(ret)
    /\ ret.whole
    /\ Len(ret.sent) = 1025
    /\ ret.n = 1024
    /\ ret.unread = <<66>>
    /\ conns[ret.c].q[ret.side] = <<66>>

\* A one-shot send with WaitForResponse has returned.
IsWaitingOneShotReturn(r) == IsOneShotReturn(r) /\ r.policy = "WaitForResponse"

ListenOpen(l) ==
    {c \in CIds : (\E i \in 1..Len(acclog[l]) : acclog[l][i] = c) /\ conns[c].open["s"]}

\* The callback listen called with c has returned.
HandlerReturned(c) ==
    \E l \in LIds : (\E i \in 1..Len(hlog[l]) : hlog[l][i] = c) /\ c \notin listeners[l].running

\* listen closes the connection of a callback when the callback returns, before
\* it accepts again: at most one connection listen accepted is open at a time.
ClosedAfterHandler ==
    /\ \A l \in LIds :
          /\ Cardinality(ListenOpen(l)) <= 1
          /\ listeners[l].lpc \in {"off", "accept"} => ListenOpen(l) = {}
    /\ \A c \in CIds : HandlerReturned(c) => ~conns[c].open["s"]

\* A Client::read that was waiting on c returns in this step, with nothing
\* queued for it, its callback having returned.
BlockedReadReturns(c) ==
    /\ conns[c].rdcap > 0
    /\ conns'[c].rdcap = 0
    /\ conns[c].q["c"] = << >>
    /\ HandlerReturned(c)

\* C22, as claimed: the connection is closed when the callback returns and
\* before the next accept, and a client blocked reading on it then observes
\* end of stream (a read of 0 bytes).
C22_ClosedAfterHandlerThenEof ==
    /\ []ClosedAfterHandler
    /\ [][\A c \in CIds : BlockedReadReturns(c) => (ret'.tag = "Ok" /\ ret'.n = 0)]_vars

\* C22, amended: the same, the blocked read observing end of stream when the
\* callback had read all the client sent, and a read error (connection reset)
\* when the connection was closed with bytes of the client unread.
C22_ClosedAfterHandlerThenEofOrReset ==
    /\ []ClosedAfterHandler
    /\ [][\A c \in CIds : BlockedReadReturns(c) =>
             IF conns[c].rst["c"]
             THEN ret'.tag = "Err" /\ ret'.err = "ReadError"
             ELSE ret'.tag = "Ok" /\ ret'.n = 0]_vars

\* A client waits in read with nothing queued, its callback has returned with
\* all the client sent read, and listen is at its next accept.
C22_Witness ==
    \E c \in CIds :
        /\ conns[c].st = "live"
        /\ conns[c].rdcap > 0
        /\ conns[c].q["c"] = << >>
        /\ conns[c].nsent["c"] = 1
        /\ ~conns[c].rst["c"]
        /\ HandlerReturned(c)
        /\ listeners[conns[c].lid].lpc = "accept"

\* send_one_shot returns in this step.
OneShotReturns == os.pc # "idle" /\ os'.pc = "idle"

\* The one read of a WaitForResponse call returns in this step, the peer having
\* closed and written no byte the call could read.
ReadsAfterSilentClose ==
    /\ OneShotReturns
    /\ os.pc = "read"
    /\ ~conns[os.con].open["s"]
    /\ conns[os.con].q["c"] = << >>

\* Every successful return of a DontWaitForResponse call is 0.
DontWaitReturnsZero ==
    (OneShotReturns /\ os.policy = "DontWaitForResponse" /\ ret'.tag = "Ok") => ret'.n = 0

\* C23, as claimed: a one-shot send with WaitForResponse whose peer closes
\* without writing a byte returns Ok(0), not an error, as a DontWaitForResponse
\* call does.
C23_SilentCloseReturnsZero ==
    [][/\ ReadsAfterSilentClose => (ret'.tag = "Ok" /\ ret'.n = 0)
       /\ DontWaitReturnsZero]_vars

\* C23, amended: it returns Ok(0) when the peer had read the whole request,
\* and the read's error (connection reset) when the peer closed with bytes of
\* the request unread.
C23_SilentCloseReturnsZeroIfRequestRead ==
    [][/\ ReadsAfterSilentClose =>
              IF conns[os.con].rst["c"]
              THEN ret'.tag = "Err" /\ ret'.err = "ReadError"
              ELSE ret'.tag = "Ok" /\ ret'.n = 0 /\ ret'.reads = 1
       /\ DontWaitReturnsZero]_vars

\* A WaitForResponse call has returned Ok(0) after its one read: the peer read
\* the request and closed without a response.
C23_Witness ==
    /\ IsWaitingOneShotReturn(ret)
    /\ ret.tag = "Ok"
    /\ ret.n = 0
    /\ ret.reads = 1
    /\ ret.nresp = 0
    /\ ret.served
    /\ conns[ret.c].st = "dead"

\* The one-shot call has written its request and waits in its read: the peer
\* has written nothing and has not closed.
OneShotWaits ==
    /\ os.pc = "read"
    /\ conns[os.con].q["c"] = << >>
    /\ conns[os.con].open["s"]

\* C24: send_one_shot sets no timeout on its connection, and a call with
\* WaitForResponse returns only in a step where the peer has written a byte or
\* has closed: while the peer does neither, the call stays in its read.
C24_WaitReturnsOnlyOnPeerAction ==
    /\ [](\A c \in CIds : conns[c].kind["c"] = "OneShot" =>
             (~conns[c].tmo["r"] /\ ~conns[c].tmo["w"]))
    /\ [][(OneShotReturns /\ os.policy = "WaitForResponse") => ~OneShotWaits]_vars

\* A WaitForResponse call waits in its read on a connection the server has
\* accepted, read the request from, and neither written to nor closed.
C24_Witness ==
    /\ OneShotWaits
    /\ os.policy = "WaitForResponse"
    /\ conns[os.con].acc
    /\ conns[os.con].q["s"] = << >>
    /\ conns[os.con].nsent["s"] = 0
    /\ os.data # << >>

====
